---- MODULE Spec2Model ----
(***************************************************************************)
(* 2048 Royale — the WebSocket pairing and relay server (server/main.go).  *)
(*                                                                         *)
(* One process per connection handler (handleWS), one per detached         *)
(* removeRoom goroutine.  A step of the model is one of: the blocking      *)
(* read, the acquisition of a mutex together with the straight-line code   *)
(* that follows it up to the next socket write or the release, the entry   *)
(* into a socket write, and the return from a socket write.                *)
(*                                                                         *)
(* Player ids (generatePlayerID) are taken to be distinct per connection:  *)
(* a player is identified with its handler.                                *)
(***************************************************************************)
EXTENDS Integers, Sequences, FiniteSets, TLC

\* ---------------------------------------------------------------- bounds
NumHandlers == 3      \* connections accepted
MaxRooms    == 2      \* Room objects ever allocated by createRoom
MaxMsgs     == 3      \* frames handled by a case of the switch, over all connections

Handlers == 1..NumHandlers
RoomIds  == 1..MaxRooms

\* Stand-ins for the 5-letter codes generateRoomCode draws.
Codes == {"AB", "CD"}

NoRoom == 0           \* the nil *Room
Free   == 0           \* an unlocked mutex
NoCode == ""
Remover == NumHandlers + 1   \* as holder of roomsMu: a removeRoom goroutine

\* ------------------------------------------------------------- variables
VARIABLES
    rooms,        \* the registry map: code -> Room object (or NoRoom)
    roomsMu,      \* holder of roomsMu: a handler, Remover, or Free
    removing,     \* the Room whose emptying spawned the removeRoom goroutine that
                  \* is inside its critical section (its argument is Code[removing])
    pending,      \* removeRoom goroutines spawned and not yet started, per Room
                  \* whose emptying spawned them
    nAlloc,       \* Room objects allocated so far
    Code,         \* Room.Code
    Players,      \* Room.Players
    Started,      \* Room.Started
    mu,           \* Room.mu: the handler holding it, or Free
    pc,           \* each handler's position in handleWS
    currentRoom,  \* handleWS's currentRoom
    room,         \* handleWS's local room (create / join) or handleDisconnect's
    code,         \* handleWS's local code (join)
    msg,          \* the frame read last, if a relay case is handling it or no
                  \* case lists its type
    todo,         \* the writes still to do in the current loop or reply
    out,          \* the writes done for the last frame a case handled, or for the read failure
    nMsgs,        \* frames handled by a case of the switch so far
    res,          \* outcome of the join, if the last handled frame is one
    admitted,     \* per Room object: appends to Players so far
    leftActive,   \* per handler: <<room, opponent>> pairs at read failure
    starter,      \* per handler: the player list its join, if the last handled
                  \* frame, set Started on
    nBcast        \* per Room object: game_start loops begun so far

vars == <<rooms, roomsMu, removing, pending, nAlloc, Code, Players, Started, mu, pc,
          currentRoom, room, code, msg, todo, out, nMsgs, res, admitted,
          leftActive, starter, nBcast>>

regVars   == <<rooms, roomsMu, removing, pending, nAlloc, Code>>
roomVars  == <<Players, Started, mu>>
ghostVars == <<res, admitted, leftActive, starter, nBcast>>

\* --------------------------------------------------------------- helpers
Range(s) == {s[i] : i \in 1..Len(s)}

RECURSIVE SelectNot(_, _)
\* the players of s other than h, in order (p.ID != player.ID)
SelectNot(s, h) ==
    IF s = <<>> THEN <<>>
    ELSE IF Head(s) # h THEN <<Head(s)>> \o SelectNot(Tail(s), h)
         ELSE SelectNot(Tail(s), h)

\* generatePlayerID
ID(h) == h

\* ------------------------------------------------------------- messages
NoGrid == <<>>
Grid1  == <<2, 0, 0, 4>>
Grid2  == <<0, 8, 0, 0>>

\* The Message envelope; an absent (omitempty) field is "" / NoGrid / 0.
Message(t) ==
    [type |-> t, room |-> "", direction |-> "", player_id |-> 0,
     grid |-> NoGrid, score |-> 0, winner |-> 0, message |-> ""]

ErrNotFound == "Room introuvable"
ErrFull     == "Room pleine"
ErrStarted  == "Partie déjà en cours"
ErrOppLeft  == "L'adversaire s'est déconnecté"

\* Raw room strings a client may put in a join frame ("ZZ" is never a key).
RawRooms == {"AB", " ab ", "CD", "cd", "zz "}

\* strings.ToUpper(strings.TrimSpace(s)) on the raw strings above
Normalize(s) ==
    CASE s = "AB"   -> "AB"
      [] s = " ab " -> "AB"
      [] s = "CD"   -> "CD"
      [] s = "cd"   -> "CD"
      [] s = "zz "  -> "ZZ"
      [] OTHER      -> s

RelayTypes   == {"move", "state_update", "game_won"}
\* client frame types that no case of the switch lists
UnlistedTypes == {"player_lost", "restart_request", "restart_accept",
                  "restart_reject"}
IgnoredTypes == {"player_lost", "restart_request", "restart_accept",
                 "restart_reject", "bogus"}

\* Frames a client may send (after json.Unmarshal).
InMsgs ==
    {Message("create")}
    \cup {[Message("join") EXCEPT !.room = r] : r \in RawRooms}
    \cup {[Message("move") EXCEPT !.direction = d] : d \in {"up", "left"}}
    \cup {[Message("state_update") EXCEPT !.grid = Grid1, !.score = 7],
          [Message("state_update") EXCEPT !.grid = Grid2]}
    \cup {Message("game_won")}
    \cup {Message(t) : t \in IgnoredTypes}

NoMsg == Message("")

\* One socket write: the target player's connection and the message.
Write(p, m) == [to |-> p, m |-> m]

\* ------------------------------------------------------------------ init
Init ==
    /\ rooms = [c \in Codes |-> NoRoom]
    /\ roomsMu = Free
    /\ removing = NoRoom
    /\ pending = [r \in RoomIds |-> 0]
    /\ nAlloc = 0
    /\ Code = [r \in RoomIds |-> NoCode]
    /\ Players = [r \in RoomIds |-> <<>>]
    /\ Started = [r \in RoomIds |-> FALSE]
    /\ mu = [r \in RoomIds |-> Free]
    /\ pc = [h \in Handlers |-> "fresh"]
    /\ currentRoom = [h \in Handlers |-> NoRoom]
    /\ room = [h \in Handlers |-> NoRoom]
    /\ code = [h \in Handlers |-> NoCode]
    /\ msg = [h \in Handlers |-> NoMsg]
    /\ todo = [h \in Handlers |-> <<>>]
    /\ out = [h \in Handlers |-> <<>>]
    /\ nMsgs = 0
    /\ res = [h \in Handlers |-> "none"]
    /\ admitted = [r \in RoomIds |-> 0]
    /\ leftActive = [h \in Handlers |-> {}]
    /\ starter = [h \in Handlers |-> <<>>]
    /\ nBcast = [r \in RoomIds |-> 0]

\* ------------------------------------------------------------- registry
\* createRoom without the `exists` test: the first code drawn is taken
AnyCode(rs) == Codes

\* createRoom's loop: the codes generateRoomCode can leave the loop with
FreshCodes(rs) == {c \in Codes : rs[c] = NoRoom}

\* getOrCreateRoom's result for a code
GetOrCreateRoom(rs, c) == IF c \in DOMAIN rs THEN rs[c] ELSE NoRoom

\* ------------------------------------------------------------ room rules
\* case "join" without the room.Started guard
JoinVerdictNoStarted(ps, st) ==
    IF Len(ps) >= 2 THEN "full" ELSE "admitted"

\* the two guards of case "join", in the code's order
JoinVerdict(ps, st) ==
    IF Len(ps) >= 2 THEN "full"
    ELSE IF st THEN "started"
    ELSE "admitted"

\* the append placed before the guards
AfterJoinAlways(ps, v, h) == Append(ps, h)

\* room.Players after the guards: the append happens only past both
AfterJoin(ps, v, h) == IF v = "admitted" THEN Append(ps, h) ELSE ps

\* the rejecting branches of case "join" returning without room.mu.Unlock()
LockAfterGuardsKept(v, h) == h

\* the holder of room.mu after the guards of case "join": both rejecting
\* branches unlock before they reply, the admitting one replies first
LockAfterGuards(v, h) == IF v = "admitted" THEN h ELSE Free

VerdictText(v) ==
    CASE v = "notfound" -> ErrNotFound
      [] v = "full"     -> ErrFull
      [] v = "started"  -> ErrStarted

\* the reply of a rejected join
RejectReply(h, v) ==
    <<Write(h, [Message("error") EXCEPT !.message = VerdictText(v)])>>

RECURSIVE ForEach(_, _)
\* for _, p := range ps { sendJSON(p.Conn, m) }
ForEach(ps, m) ==
    IF ps = <<>> THEN <<>> ELSE <<Write(Head(ps), m)>> \o ForEach(Tail(ps), m)

\* the relay loops without the p.ID != player.ID test
RecipientsAll(ps, h, t) == ps

\* the recipients of a relayed frame
Recipients(ps, h, t) == IF t = "game_won" THEN ps ELSE SelectNot(ps, h)

\* case "game_won" with Winner left out of the game_over message
RelayedNoWinner(m, h) ==
    CASE m.type = "move" ->
            [Message("opponent_move") EXCEPT !.direction = m.direction,
                                             !.player_id = ID(h)]
      [] m.type = "state_update" ->
            [Message("opponent_state") EXCEPT !.grid = m.grid, !.score = m.score]
      [] m.type = "game_won" ->
            Message("game_over")

\* the message relayed for frame m of player h
Relayed(m, h) ==
    CASE m.type = "move" ->
            [Message("opponent_move") EXCEPT !.direction = m.direction,
                                             !.player_id = ID(h)]
      [] m.type = "state_update" ->
            [Message("opponent_state") EXCEPT !.grid = m.grid, !.score = m.score]
      [] m.type = "game_won" ->
            [Message("game_over") EXCEPT !.winner = ID(h)]

\* handleDisconnect's notice
OppLeft == [Message("error") EXCEPT !.message = ErrOppLeft]

\* ---------------------------------------------------------- socket writes
WritePcs == {"create_replying", "join_rejecting", "join_replying",
             "join_bcasting", "relay_sending", "disc_notifying"}

\* the handlers inside conn.WriteMessage on player p's connection
Writers(p) ==
    {h \in Handlers : pc[h] \in WritePcs /\ todo[h] # <<>> /\ Head(todo[h]).to = p}

\* conn.WriteMessage returns: the head of todo has been written
Written(h) ==
    /\ out' = [out EXCEPT ![h] = Append(@, Head(todo[h]))]
    /\ todo' = [todo EXCEPT ![h] = Tail(@)]

\* creates that have been read and have not allocated their Room yet
CreatesInFlight == Cardinality({h \in Handlers : pc[h] \in {"create_lock", "create_body"}})

\* ------------------------------------------------------- the read loop
\* A handler is "fresh" from upgrader.Upgrade until ReadMessage first fails or
\* returns a frame that a case of the switch handles.  Connections are
\* numbered in the order in which that happens.
Reading(h) ==
    \/ pc[h] = "read"
    \/ pc[h] = "fresh" /\ \A g \in Handlers : g < h => pc[g] # "fresh"

\* the frames that reach the body of a case of the switch
Handled(h, m) ==
    \/ m.type \in {"create", "join"}
    \/ m.type \in RelayTypes /\ currentRoom[h] # NoRoom

\* conn.ReadMessage returns a frame; json.Unmarshal succeeds; switch msg.Type
Recv(h, m) ==
    /\ Reading(h)
    /\ Handled(h, m)
    /\ nMsgs < MaxMsgs
    /\ m.type = "create" => nAlloc + CreatesInFlight < MaxRooms
    /\ nMsgs' = nMsgs + 1
    /\ out' = [out EXCEPT ![h] = <<>>]
    /\ res' = [res EXCEPT ![h] = "none"]
    /\ starter' = [starter EXCEPT ![h] = <<>>]
    /\ CASE m.type = "create" ->
              /\ pc' = [pc EXCEPT ![h] = "create_lock"]
              /\ msg' = [msg EXCEPT ![h] = NoMsg]
              /\ code' = code
         [] m.type = "join" ->
              /\ pc' = [pc EXCEPT ![h] = "join_lookup_lock"]
              /\ code' = [code EXCEPT ![h] = Normalize(m.room)]
              /\ msg' = [msg EXCEPT ![h] = NoMsg]
         [] m.type \in RelayTypes ->
              /\ pc' = [pc EXCEPT ![h] = "relay_lock"]
              /\ msg' = [msg EXCEPT ![h] = m]
              /\ code' = code
    /\ UNCHANGED <<regVars, roomVars, currentRoom, room, todo, admitted, leftActive,
                   nBcast>>

\* a frame of a type the switch does not list, from a player with a room
Unlisted(h, m) == m.type \in UnlistedTypes /\ currentRoom[h] # NoRoom

\* conn.ReadMessage returns such a frame: the switch has no case and no
\* default for it, the loop goes on to the next read
RecvUnlisted(h, m) ==
    /\ Reading(h)
    /\ Unlisted(h, m)
    /\ nMsgs < MaxMsgs
    /\ nMsgs' = nMsgs + 1
    /\ msg' = [msg EXCEPT ![h] = m]
    /\ out' = [out EXCEPT ![h] = <<>>]
    /\ res' = [res EXCEPT ![h] = "none"]
    /\ starter' = [starter EXCEPT ![h] = <<>>]
    /\ pc' = [pc EXCEPT ![h] = "read"]
    /\ UNCHANGED <<regVars, roomVars, currentRoom, room, code, todo, admitted,
                   leftActive, nBcast>>

\* conn.ReadMessage returns any other frame that no case handles: a type the
\* switch does not list, or a relayed type while currentRoom == nil (continue)
RecvIgnored(h, m) ==
    /\ Reading(h)
    /\ ~Handled(h, m)
    /\ ~Unlisted(h, m)
    /\ UNCHANGED vars

\* conn.ReadMessage returns a frame; json.Unmarshal fails (continue)
RecvMalformed(h) ==
    /\ Reading(h)
    /\ UNCHANGED vars

\* the rooms in which h is one of the two players of a started game, with
\* the opponent
ActivePairs(h) ==
    {<<r, q>> \in RoomIds \X Handlers :
        /\ Started[r]
        /\ Len(Players[r]) = 2
        /\ q # h
        /\ Range(Players[r]) = {h, q}}

\* conn.ReadMessage fails
ReadFail(h) ==
    /\ Reading(h)
    /\ out' = [out EXCEPT ![h] = <<>>]
    /\ res' = [res EXCEPT ![h] = "none"]
    /\ leftActive' = [leftActive EXCEPT ![h] = ActivePairs(h)]
    /\ starter' = [starter EXCEPT ![h] = <<>>]
    /\ msg' = [msg EXCEPT ![h] = NoMsg]
    /\ IF currentRoom[h] # NoRoom
       THEN /\ pc' = [pc EXCEPT ![h] = "disc_lock"]
            /\ room' = [room EXCEPT ![h] = currentRoom[h]]
       ELSE /\ pc' = [pc EXCEPT ![h] = "done"]
            /\ room' = room
    /\ UNCHANGED <<regVars, roomVars, currentRoom, code, todo, nMsgs, admitted,
                   nBcast>>

\* ------------------------------------------------------- case "create"
\* createRoom: roomsMu.Lock()
CreateRoomLock(h) ==
    /\ pc[h] = "create_lock"
    /\ roomsMu = Free
    /\ roomsMu' = h
    /\ pc' = [pc EXCEPT ![h] = "create_body"]
    /\ UNCHANGED <<rooms, removing, pending, nAlloc, Code, roomVars, currentRoom,
                   room, code, msg, todo, out, nMsgs, ghostVars>>

\* createRoom: the loop, the insertion, the deferred Unlock
CreateRoomBody(h) ==
    /\ pc[h] = "create_body"
    /\ nAlloc < MaxRooms
    /\ \E c \in FreshCodes(rooms) :
          LET r == nAlloc + 1 IN
          /\ nAlloc' = r
          /\ Code' = [Code EXCEPT ![r] = c]
          /\ rooms' = [rooms EXCEPT ![c] = r]
          /\ room' = [room EXCEPT ![h] = r]
    /\ roomsMu' = Free
    /\ pc' = [pc EXCEPT ![h] = "create_join"]
    /\ UNCHANGED <<removing, pending, roomVars, currentRoom, code, msg, todo, out,
                   nMsgs, ghostVars>>

\* room.mu.Lock(); append; room.mu.Unlock(); currentRoom = room
CreateJoin(h) ==
    LET r == room[h] IN
    /\ pc[h] = "create_join"
    /\ mu[r] = Free
    /\ Players' = [Players EXCEPT ![r] = Append(@, h)]
    /\ admitted' = [admitted EXCEPT ![r] = @ + 1]
    /\ currentRoom' = [currentRoom EXCEPT ![h] = r]
    /\ todo' = [todo EXCEPT ![h] =
                  <<Write(h, [Message("room_created") EXCEPT !.room = Code[r],
                                                              !.player_id = ID(h)])>>]
    /\ pc' = [pc EXCEPT ![h] = "create_reply"]
    /\ UNCHANGED <<regVars, Started, mu, room, code, msg, out, nMsgs, res, leftActive,
                   starter, nBcast>>

\* sendJSON(conn, room_created): conn.WriteMessage is entered
CreateReplyBegin(h) ==
    /\ pc[h] = "create_reply"
    /\ pc' = [pc EXCEPT ![h] = "create_replying"]
    /\ UNCHANGED <<regVars, roomVars, currentRoom, room, code, msg, todo, out,
                   nMsgs, ghostVars>>

\* sendJSON(conn, room_created) returns; next loop iteration
CreateReplyEnd(h) ==
    /\ pc[h] = "create_replying"
    /\ Written(h)
    /\ pc' = [pc EXCEPT ![h] = "read"]
    /\ room' = [room EXCEPT ![h] = NoRoom]
    /\ msg' = [msg EXCEPT ![h] = NoMsg]
    /\ UNCHANGED <<regVars, roomVars, currentRoom, code, nMsgs, ghostVars>>

\* --------------------------------------------------------- case "join"
\* getOrCreateRoom: roomsMu.Lock()
JoinLookupLock(h) ==
    /\ pc[h] = "join_lookup_lock"
    /\ roomsMu = Free
    /\ roomsMu' = h
    /\ pc' = [pc EXCEPT ![h] = "join_lookup"]
    /\ UNCHANGED <<rooms, removing, pending, nAlloc, Code, roomVars, currentRoom,
                   room, code, msg, todo, out, nMsgs, ghostVars>>

\* getOrCreateRoom: the map read, the deferred Unlock; if room == nil
JoinLookup(h) ==
    LET r == GetOrCreateRoom(rooms, code[h]) IN
    /\ pc[h] = "join_lookup"
    /\ roomsMu' = Free
    /\ room' = [room EXCEPT ![h] = r]
    /\ IF r = NoRoom
       THEN /\ todo' = [todo EXCEPT ![h] = RejectReply(h, "notfound")]
            /\ res' = [res EXCEPT ![h] = "notfound"]
            /\ pc' = [pc EXCEPT ![h] = "join_reject"]
       ELSE /\ pc' = [pc EXCEPT ![h] = "join_check"]
            /\ UNCHANGED <<todo, res>>
    /\ code' = [code EXCEPT ![h] = NoCode]     \* not read again
    /\ UNCHANGED <<rooms, removing, pending, nAlloc, Code, roomVars, currentRoom,
                   msg, out, nMsgs, admitted, leftActive, starter, nBcast>>

\* room.mu.Lock(); the two guards; append; currentRoom = room
JoinCheck(h) ==
    LET r == room[h]
        v == JoinVerdict(Players[r], Started[r]) IN
    /\ pc[h] = "join_check"
    /\ mu[r] = Free
    /\ res' = [res EXCEPT ![h] = v]
    /\ Players' = [Players EXCEPT ![r] = AfterJoin(@, v, h)]
    /\ admitted' = [admitted EXCEPT ![r] = @ + Len(Players'[r]) - Len(Players[r])]
    /\ mu' = [mu EXCEPT ![r] = LockAfterGuards(v, h)]
    /\ IF v = "admitted"
       THEN /\ currentRoom' = [currentRoom EXCEPT ![h] = r]
            /\ todo' = [todo EXCEPT ![h] =
                  <<Write(h, [Message("room_joined") EXCEPT !.room = Code[r],
                                                             !.player_id = ID(h)])>>]
            /\ pc' = [pc EXCEPT ![h] = "join_reply"]
       ELSE /\ todo' = [todo EXCEPT ![h] = RejectReply(h, v)]
            /\ pc' = [pc EXCEPT ![h] = "join_reject"]
            /\ UNCHANGED currentRoom
    /\ UNCHANGED <<regVars, Started, room, code, msg, out, nMsgs, leftActive, starter,
                   nBcast>>

\* sendJSON(conn, error): conn.WriteMessage is entered
JoinRejectBegin(h) ==
    /\ pc[h] = "join_reject"
    /\ pc' = [pc EXCEPT ![h] = "join_rejecting"]
    /\ UNCHANGED <<regVars, roomVars, currentRoom, room, code, msg, todo, out,
                   nMsgs, ghostVars>>

\* sendJSON(conn, error) returns; continue
JoinRejectEnd(h) ==
    /\ pc[h] = "join_rejecting"
    /\ Written(h)
    /\ pc' = [pc EXCEPT ![h] = "read"]
    /\ room' = [room EXCEPT ![h] = NoRoom]
    /\ msg' = [msg EXCEPT ![h] = NoMsg]
    /\ UNCHANGED <<regVars, roomVars, currentRoom, code, nMsgs, ghostVars>>

\* sendJSON(conn, room_joined): conn.WriteMessage is entered (room.mu held)
JoinReplyBegin(h) ==
    /\ pc[h] = "join_reply"
    /\ pc' = [pc EXCEPT ![h] = "join_replying"]
    /\ UNCHANGED <<regVars, roomVars, currentRoom, room, code, msg, todo, out,
                   nMsgs, ghostVars>>

\* sendJSON(conn, room_joined) returns; if len(room.Players) == 2; Unlock
JoinReplyEnd(h) ==
    LET r == room[h] IN
    /\ pc[h] = "join_replying"
    /\ Written(h)
    /\ mu' = [mu EXCEPT ![r] = Free]
    /\ IF Len(Players[r]) = 2
       THEN /\ Started' = [Started EXCEPT ![r] = TRUE]
            /\ starter' = [starter EXCEPT ![h] = Players[r]]
            /\ pc' = [pc EXCEPT ![h] = "join_range"]
            /\ UNCHANGED <<room, msg>>
       ELSE /\ pc' = [pc EXCEPT ![h] = "read"]
            /\ room' = [room EXCEPT ![h] = NoRoom]
            /\ msg' = [msg EXCEPT ![h] = NoMsg]
            /\ UNCHANGED <<Started, starter>>
    /\ UNCHANGED <<regVars, Players, currentRoom, code, nMsgs, res, admitted,
                   leftActive, nBcast>>

\* the game_start loop ranging over the other players only
StartRecipientsOthers(ps, h) == SelectNot(ps, h)

\* for _, p := range room.Players: the players the game_start loop visits
StartRecipients(ps, h) == ps

\* for _, p := range room.Players: the slice is read, room.mu not held
JoinRange(h) ==
    LET r == room[h] IN
    /\ pc[h] = "join_range"
    /\ nBcast' = [nBcast EXCEPT ![r] = @ + 1]
    /\ todo' = [todo EXCEPT ![h] =
                  ForEach(StartRecipients(Players[r], h),
                          [Message("game_start") EXCEPT !.room = Code[r]])]
    /\ IF Players[r] = <<>>
       THEN /\ pc' = [pc EXCEPT ![h] = "read"]
            /\ room' = [room EXCEPT ![h] = NoRoom]
            /\ msg' = [msg EXCEPT ![h] = NoMsg]
       ELSE /\ pc' = [pc EXCEPT ![h] = "join_bcast"]
            /\ UNCHANGED <<room, msg>>
    /\ UNCHANGED <<regVars, roomVars, currentRoom, code, out, nMsgs, res, admitted,
                   leftActive, starter>>

\* sendJSON(p.Conn, game_start): conn.WriteMessage is entered
JoinBcastBegin(h) ==
    /\ pc[h] = "join_bcast"
    /\ pc' = [pc EXCEPT ![h] = "join_bcasting"]
    /\ UNCHANGED <<regVars, roomVars, currentRoom, room, code, msg, todo, out,
                   nMsgs, ghostVars>>

\* sendJSON(p.Conn, game_start) returns; next p, or end of the case
JoinBcastEnd(h) ==
    /\ pc[h] = "join_bcasting"
    /\ Written(h)
    /\ IF Tail(todo[h]) = <<>>
       THEN /\ pc' = [pc EXCEPT ![h] = "read"]
            /\ room' = [room EXCEPT ![h] = NoRoom]
            /\ msg' = [msg EXCEPT ![h] = NoMsg]
       ELSE /\ pc' = [pc EXCEPT ![h] = "join_bcast"]
            /\ UNCHANGED <<room, msg>>
    /\ UNCHANGED <<regVars, roomVars, currentRoom, code, nMsgs, ghostVars>>

\* ------------------------------- case "move", "state_update", "game_won"
\* currentRoom.mu.Lock(); the loop's recipients; Unlock if there is none
RelayLock(h) ==
    LET r  == currentRoom[h]
        ws == ForEach(Recipients(Players[r], h, msg[h].type), Relayed(msg[h], h)) IN
    /\ pc[h] = "relay_lock"
    /\ mu[r] = Free
    /\ todo' = [todo EXCEPT ![h] = ws]
    /\ IF ws = <<>>
       THEN /\ pc' = [pc EXCEPT ![h] = "read"]
            /\ msg' = [msg EXCEPT ![h] = NoMsg]
            /\ mu' = mu
       ELSE /\ pc' = [pc EXCEPT ![h] = "relay_send"]
            /\ mu' = [mu EXCEPT ![r] = h]
            /\ msg' = msg
    /\ UNCHANGED <<regVars, Players, Started, currentRoom, room, code, out, nMsgs,
                   ghostVars>>

\* sendJSON(p.Conn, ...): conn.WriteMessage is entered (currentRoom.mu held)
RelayBegin(h) ==
    /\ pc[h] = "relay_send"
    /\ pc' = [pc EXCEPT ![h] = "relay_sending"]
    /\ UNCHANGED <<regVars, roomVars, currentRoom, room, code, msg, todo, out,
                   nMsgs, ghostVars>>

\* sendJSON(p.Conn, ...) returns; next p, or Unlock
RelayEnd(h) ==
    /\ pc[h] = "relay_sending"
    /\ Written(h)
    /\ IF Tail(todo[h]) = <<>>
       THEN /\ pc' = [pc EXCEPT ![h] = "read"]
            /\ msg' = [msg EXCEPT ![h] = NoMsg]
            /\ mu' = [mu EXCEPT ![currentRoom[h]] = Free]
       ELSE /\ pc' = [pc EXCEPT ![h] = "relay_send"]
            /\ UNCHANGED <<msg, mu>>
    /\ UNCHANGED <<regVars, Players, Started, currentRoom, room, code, nMsgs,
                   ghostVars>>

\* ---------------------------------------------------- handleDisconnect
\* room.mu.Lock(); the recipients of the notice
DiscLock(h) ==
    LET r  == room[h]
        ws == ForEach(SelectNot(Players[r], h), OppLeft) IN
    /\ pc[h] = "disc_lock"
    /\ mu[r] = Free
    /\ mu' = [mu EXCEPT ![r] = h]
    /\ todo' = [todo EXCEPT ![h] = ws]
    /\ pc' = [pc EXCEPT ![h] = IF ws = <<>> THEN "disc_cleanup" ELSE "disc_notify"]
    /\ UNCHANGED <<regVars, Players, Started, currentRoom, room, code, msg, out,
                   nMsgs, ghostVars>>

\* sendJSON(p.Conn, error): conn.WriteMessage is entered (room.mu held)
DiscNotifyBegin(h) ==
    /\ pc[h] = "disc_notify"
    /\ pc' = [pc EXCEPT ![h] = "disc_notifying"]
    /\ UNCHANGED <<regVars, roomVars, currentRoom, room, code, msg, todo, out,
                   nMsgs, ghostVars>>

\* sendJSON(p.Conn, error) returns; next p, or the clean-up
DiscNotifyEnd(h) ==
    /\ pc[h] = "disc_notifying"
    /\ Written(h)
    /\ pc' = [pc EXCEPT ![h] =
                IF Tail(todo[h]) = <<>> THEN "disc_cleanup" ELSE "disc_notify"]
    /\ UNCHANGED <<regVars, roomVars, currentRoom, room, code, msg, nMsgs, ghostVars>>

\* room.Players = remaining; go removeRoom(room.Code); the deferred Unlock;
\* handleWS returns and conn.Close() runs
DiscCleanup(h) ==
    LET r         == room[h]
        remaining == SelectNot(Players[r], h) IN
    /\ pc[h] = "disc_cleanup"
    /\ Players' = [Players EXCEPT ![r] = remaining]
    /\ pending' = IF Len(remaining) = 0
                  THEN [pending EXCEPT ![r] = @ + 1]
                  ELSE pending
    /\ mu' = [mu EXCEPT ![r] = Free]
    /\ pc' = [pc EXCEPT ![h] = "done"]
    /\ UNCHANGED <<rooms, roomsMu, removing, nAlloc, Code, Started, currentRoom,
                   room, code, msg, todo, out, nMsgs, ghostVars>>

\* ------------------------------------------------ the removeRoom goroutine
\* removeRoom: roomsMu.Lock()
RemoveRoomLock(r) ==
    /\ pending[r] > 0
    /\ roomsMu = Free
    /\ roomsMu' = Remover
    /\ removing' = r
    /\ pending' = [pending EXCEPT ![r] = @ - 1]
    /\ UNCHANGED <<rooms, nAlloc, Code, roomVars, pc, currentRoom, room, code, msg,
                   todo, out, nMsgs, ghostVars>>

\* removeRoom: delete(rooms, code); the deferred Unlock
RemoveRoomBody ==
    /\ roomsMu = Remover
    /\ rooms' = [rooms EXCEPT ![Code[removing]] = NoRoom]
    /\ roomsMu' = Free
    /\ removing' = NoRoom
    /\ UNCHANGED <<pending, nAlloc, Code, roomVars, pc, currentRoom, room, code,
                   msg, todo, out, nMsgs, ghostVars>>

\* ------------------------------------------------------- specification
HandlerStep(h) ==
    \/ \E m \in InMsgs : Recv(h, m)
    \/ \E m \in InMsgs : RecvUnlisted(h, m)
    \/ \E m \in InMsgs : RecvIgnored(h, m)
    \/ RecvMalformed(h)
    \/ ReadFail(h)
    \/ CreateRoomLock(h)
    \/ CreateRoomBody(h)
    \/ CreateJoin(h)
    \/ CreateReplyBegin(h)
    \/ CreateReplyEnd(h)
    \/ JoinLookupLock(h)
    \/ JoinLookup(h)
    \/ JoinCheck(h)
    \/ JoinRejectBegin(h)
    \/ JoinRejectEnd(h)
    \/ JoinReplyBegin(h)
    \/ JoinReplyEnd(h)
    \/ JoinRange(h)
    \/ JoinBcastBegin(h)
    \/ JoinBcastEnd(h)
    \/ RelayLock(h)
    \/ RelayBegin(h)
    \/ RelayEnd(h)
    \/ DiscLock(h)
    \/ DiscNotifyBegin(h)
    \/ DiscNotifyEnd(h)
    \/ DiscCleanup(h)

RemoverStep ==
    \/ \E r \in RoomIds : RemoveRoomLock(r)
    \/ RemoveRoomBody

Next ==
    \/ \E h \in Handlers : HandlerStep(h)
    \/ RemoverStep

Spec == Init /\ [][Next]_vars

\* The steps of handler h that depend on the Go scheduler and on the
\* mutexes only: neither the return of conn.ReadMessage (the client decides
\* when a frame or a failure arrives) nor the return of conn.WriteMessage
\* (no write deadline is set: it returns when the peer's socket takes the
\* bytes).
Scheduled(h) ==
    \/ CreateRoomLock(h)
    \/ CreateRoomBody(h)
    \/ CreateJoin(h)
    \/ CreateReplyBegin(h)
    \/ JoinLookupLock(h)
    \/ JoinLookup(h)
    \/ JoinCheck(h)
    \/ JoinRejectBegin(h)
    \/ JoinReplyBegin(h)
    \/ JoinRange(h)
    \/ JoinBcastBegin(h)
    \/ RelayLock(h)
    \/ RelayBegin(h)
    \/ DiscLock(h)
    \/ DiscNotifyBegin(h)
    \/ DiscCleanup(h)

\* Every runnable goroutine is eventually run.
FairSpec ==
    /\ Spec
    /\ \A h \in Handlers : WF_vars(Scheduled(h))
    /\ WF_vars(RemoverStep)

\* ====================================================================
\*                              PROPERTIES
\* ====================================================================
Allocated == 1..nAlloc

DiscPcs == {"disc_lock", "disc_notify", "disc_notifying", "disc_cleanup"}

\* the writes of ws that go to player p
RECURSIVE WritesTo(_, _)
WritesTo(ws, p) ==
    IF ws = <<>> THEN <<>>
    ELSE IF Head(ws).to = p THEN <<Head(ws)>> \o WritesTo(Tail(ws), p)
         ELSE WritesTo(Tail(ws), p)

ErrorTo(p, text) == Write(p, [Message("error") EXCEPT !.message = text])

\* C1: in every reachable state every room's player list holds at most 2
\* players, the creator's self-join included.
C1_AtMostTwoPlayers ==
    \A r \in RoomIds : Len(Players[r]) <= 2

\* C2: createRoom never returns a code that is a key of the registry: no
\* step replaces a registered Room by another one, every registered Room is
\* registered under its own code, and so two Rooms registered at the same
\* time have different codes.
C2_CreateRoomUnique ==
    [][ /\ \A c \in Codes :
              rooms[c] # NoRoom => rooms'[c] \in {rooms[c], NoRoom}
        /\ \A c \in Codes :
              rooms'[c] # NoRoom => Code'[rooms'[c]] = c
        /\ \A h \in Handlers :
              pc[h] = "create_body" /\ pc'[h] = "create_join"
                 => /\ rooms[Code'[room'[h]]] = NoRoom
                    /\ rooms'[Code'[room'[h]]] = room'[h]
      ]_vars

\* C2 witness: two createRoom calls have overlapped and both Rooms are
\* registered.
C2_TwoRoomsRegistered ==
    /\ \A c \in Codes : rooms[c] # NoRoom
    /\ \E g, h \in Handlers : g # h /\ pc[g] = "create_join" /\ pc[h] = "create_join"

\* C3: whenever a room's player list has exactly 2 players and the room
\* lock is free, the room is started.
C3_TwoPlayersStarted ==
    \A r \in RoomIds : Len(Players[r]) = 2 /\ mu[r] = Free => Started[r]

\* C4: started is set only by the join that brings the count to exactly 2,
\* it never becomes false again, a join frame handled on a started room
\* leaves the player list unchanged, and with fewer than 2 players present
\* the joiner is sent the error "Partie déjà en cours" and nothing else.
C4_StartedIsFinal ==
    [][ /\ \A r \in RoomIds :
              ~Started[r] /\ Started'[r]
                 => \E h \in Handlers :
                       /\ pc[h] = "join_replying" /\ pc'[h] = "join_range"
                       /\ room[h] = r /\ res[h] = "admitted"
                       /\ Len(Players'[r]) = 2
                       /\ Players'[r][2] = h
        /\ \A r \in RoomIds : Started[r] => Started'[r]
        /\ \A h \in Handlers :
              pc[h] = "join_check" /\ pc'[h] # "join_check" /\ Started[room[h]]
                 => /\ Players' = Players
                    /\ currentRoom' = currentRoom
                    /\ pc'[h] = "join_reject"
                    /\ Len(Players[room[h]]) < 2 => res'[h] = "started"
        /\ \A h \in Handlers :
              pc[h] = "join_rejecting" /\ pc'[h] = "read" /\ res[h] = "started"
                 => out'[h] = <<ErrorTo(h, ErrStarted)>>
      ]_vars

\* C4 witness: a join on a started room with a vacated slot has been
\* answered.
C4_LateJoinRejected ==
    \E h \in Handlers :
        /\ pc[h] = "read"
        /\ res[h] = "started"
        /\ out[h] = <<ErrorTo(h, ErrStarted)>>
        /\ \E r \in Allocated : Started[r] /\ Len(Players[r]) < 2

\* C5: over the lifetime of a Room object at most 2 players are ever
\* admitted to it, the creator's self-join included, and a join that finds
\* 2 players is sent "Room pleine".
C5_AtMostTwoJoinsEver ==
    /\ \A r \in RoomIds : admitted[r] <= 2
    /\ \A h \in Handlers :
          pc[h] = "read" /\ res[h] = "full" => out[h] = <<ErrorTo(h, ErrFull)>>

\* C6: every room that has at least one player is present in the registry
\* under its code.
C6_MembersOnlyInRegisteredRooms ==
    \A r \in Allocated : Len(Players[r]) >= 1 => rooms[Code[r]] = r

\* C7: after the disconnect handling of a player whose read failed while it
\* was one of the two players of a started room, the player is no longer in
\* that room's list, the opponent (if it has not begun to disconnect itself)
\* has been sent exactly one "L'adversaire s'est déconnecté", and the
\* departing player has been sent nothing.
C7_DisconnectNotifiesOpponent ==
    \A h \in Handlers :
        pc[h] = "done" =>
            \A a \in leftActive[h] :
                /\ h \notin Range(Players[a[1]])
                /\ WritesTo(out[h], h) = <<>>
                /\ pc[a[2]] \notin DiscPcs \cup {"done"}
                      => WritesTo(out[h], a[2]) = <<Write(a[2], OppLeft)>>

\* every handler has returned and every removeRoom goroutine has finished
Quiescent ==
    /\ \A h \in Handlers : pc[h] = "done"
    /\ \A r \in RoomIds : pending[r] = 0
    /\ roomsMu = Free

\* C8: once every player has disconnected and every deferred removeRoom has
\* run, no room is left in the registry.
C8_RoomsRemovedWhenAllLeft ==
    Quiescent => \A c \in Codes : rooms[c] = NoRoom

JoinRejectPath == {"join_lookup_lock", "join_lookup", "join_check",
                   "join_reject", "join_rejecting"}

\* the keys of the registry
Keys(rs) == {c \in DOMAIN rs : rs[c] # NoRoom}

\* C9: a step of a join that does not admit the joiner changes neither the
\* registry's key set, nor any room's player list or started flag, nor the
\* joiner's current room, and allocates no Room; when the rejected join is
\* over exactly one write has been done, the error to the joiner.
C9_RejectedJoinChangesNothing ==
    [][ \A h \in Handlers :
          /\ pc[h] \in JoinRejectPath /\ pc'[h] # pc[h] /\ pc'[h] # "join_reply"
                => /\ Keys(rooms') = Keys(rooms)
                   /\ rooms' = rooms
                   /\ nAlloc' = nAlloc
                   /\ Players' = Players
                   /\ Started' = Started
                   /\ currentRoom' = currentRoom
          /\ pc[h] = "join_rejecting" /\ pc'[h] = "read"
                => /\ res[h] \in {"notfound", "full", "started"}
                   /\ Len(out'[h]) = 1
                   /\ out'[h][1].to = h
                   /\ out'[h][1].m.type = "error"
                   /\ out'[h][1].m.message =
                         (CASE res[h] = "notfound" -> "Room introuvable"
                            [] res[h] = "full"     -> "Room pleine"
                            [] res[h] = "started"  -> "Partie déjà en cours")
      ]_vars

\* C9 witness: a join on a full room has been rejected.
C9_JoinRejected ==
    \E h \in Handlers :
        /\ pc[h] = "read"
        /\ res[h] = "full"
        /\ out[h] = <<ErrorTo(h, ErrFull)>>
        /\ currentRoom[h] = NoRoom

\* C10: no two handlers are inside a write to the same player's connection
\* at the same time.
C10_WritesSerialized ==
    \A p \in Handlers : Cardinality(Writers(p)) <= 1

\* a relay case of handler h ends with this step
RelayDone(h) ==
    /\ pc[h] \in {"relay_lock", "relay_sending"}
    /\ pc'[h] = "read"

\* C11: when the handling of a move or state_update of a player with a
\* current room ends, every other player of that room's list has been sent
\* opponent_move with the same direction, resp. opponent_state with the same
\* grid and score, once per entry of the list, and nothing else has been
\* sent; in particular nothing to the sender.
C11_RelayToOthers ==
    [][ \A h \in Handlers :
          RelayDone(h) /\ msg[h].type \in {"move", "state_update"}
             => LET ps == Players[currentRoom[h]]
                    ws == out'[h] IN
                /\ \A p \in Range(ps) \ {h} :
                      Len(WritesTo(ws, p)) =
                         Cardinality({i \in 1..Len(ps) : ps[i] = p})
                /\ \A i \in 1..Len(ws) :
                      /\ ws[i].to # h
                      /\ ws[i].to \in Range(ps)
                      /\ msg[h].type = "move"
                            => /\ ws[i].m.type = "opponent_move"
                               /\ ws[i].m.direction = msg[h].direction
                      /\ msg[h].type = "state_update"
                            => /\ ws[i].m.type = "opponent_state"
                               /\ ws[i].m.grid = msg[h].grid
                               /\ ws[i].m.score = msg[h].score
      ]_vars

\* C11 witness: a state_update has been relayed to the opponent in a
\* 2-player room.
C11_StateRelayed ==
    \E h, p \in Handlers :
        /\ p # h
        /\ pc[h] = "read"
        /\ currentRoom[h] # NoRoom
        /\ Range(Players[currentRoom[h]]) = {h, p}
        /\ Len(out[h]) = 1
        /\ out[h][1].to = p
        /\ out[h][1].m.type = "opponent_state"
        /\ out[h][1].m.grid = Grid1
        /\ out[h][1].m.score = 7

\* C12: when the handling of a game_won of a player with a current room
\* ends, every player of that room's list, the sender included, has been
\* sent game_over with the sender's id as winner, once per entry of the
\* list, and nothing else has been sent.
C12_GameOverToAll ==
    [][ \A h \in Handlers :
          RelayDone(h) /\ msg[h].type = "game_won"
             => LET ps == Players[currentRoom[h]]
                    ws == out'[h] IN
                /\ h \in Range(ps)
                /\ \A p \in Range(ps) :
                      Len(WritesTo(ws, p)) =
                         Cardinality({i \in 1..Len(ps) : ps[i] = p})
                /\ \A i \in 1..Len(ws) :
                      /\ ws[i].to \in Range(ps)
                      /\ ws[i].m.type = "game_over"
                      /\ ws[i].m.winner = ID(h)
      ]_vars

\* C12 witness: a game_won has been answered in a 2-player room, the
\* sender among the recipients.
C12_GameOverSent ==
    \E h, p \in Handlers :
        /\ p # h
        /\ pc[h] = "read"
        /\ currentRoom[h] # NoRoom
        /\ Range(Players[currentRoom[h]]) = {h, p}
        /\ Len(out[h]) = 2
        /\ \A i \in 1..2 : out[h][i].m.type = "game_over" /\ out[h][i].m.winner = ID(h)
        /\ {out[h][1].to, out[h][2].to} = {h, p}

Gone == DiscPcs \cup {"done"}

\* C13: when the join that brought a room to 2 players and set Started is
\* over, each of the two players whose connection is still being served
\* (its read has not failed) has been sent game_start carrying the room's
\* code.
C13_GameStartToBoth ==
    \A h \in Handlers :
        pc[h] = "read" /\ starter[h] # <<>> =>
            \A p \in Range(starter[h]) :
                pc[p] \notin Gone =>
                    \E i \in 1..Len(out[h]) :
                        /\ out[h][i].to = p
                        /\ out[h][i].m.type = "game_start"
                        /\ out[h][i].m.room = Code[currentRoom[h]]

\* C13 witness: a join has brought a created room to 2 players, and the
\* creator and the joiner, both connected, have been sent game_start.
C13_GameStarted ==
    \E h, p \in Handlers :
        /\ p # h
        /\ pc[h] = "read" /\ pc[p] \notin Gone
        /\ starter[h] = <<p, h>>
        /\ Len(out[h]) = 3
        /\ out[h][1].m.type = "room_joined"
        /\ out[h][2].to = p /\ out[h][2].m.type = "game_start"
        /\ out[h][3].to = h /\ out[h][3].m.type = "game_start"
        /\ out[h][2].m.room = Code[currentRoom[h]]

\* C14: the step that handles a player_lost or restart_* frame of a player
\* with a current room sends, or queues for sending, to every other player
\* of that room a message of type opponent_lost with the frame's score,
\* resp. of the frame's own type.
C14_LostAndRestartRelayed ==
    [][ \A h \in Handlers : \A m \in InMsgs :
          Reading(h) /\ Unlisted(h, m) /\ nMsgs' = nMsgs + 1 /\ msg'[h] = m
             => LET ws == out'[h] \o todo'[h] IN
                \A p \in Range(Players[currentRoom[h]]) \ {h} :
                    \E i \in 1..Len(ws) :
                        /\ ws[i].to = p
                        /\ ws[i].m.type = (IF m.type = "player_lost"
                                           THEN "opponent_lost" ELSE m.type)
                        /\ m.type = "player_lost" => ws[i].m.score = m.score
      ]_vars

\* positions at which the handler's code is reading or about to read or
\* write Players or Started of its room, the lock acquisitions excluded
AccessPcs == {"join_reply", "join_replying", "join_range", "join_bcast",
              "join_bcasting", "relay_send", "relay_sending", "disc_notify",
              "disc_notifying", "disc_cleanup"}

\* the room handler h is working on
RoomAt(h) == IF pc[h] \in {"relay_send", "relay_sending"} THEN currentRoom[h]
             ELSE room[h]

\* C15: a handler that is reading, iterating or about to write a room's
\* player list or started flag, the game_start loop included, holds that
\* room's lock.
C15_AccessUnderLock ==
    \A h \in Handlers : pc[h] \in AccessPcs => mu[RoomAt(h)] = h

\* the room locks handler h holds
Holds(h) == {r \in RoomIds : mu[r] = h}

\* h is at roomsMu.Lock()
WantsRoomsMu(h) == pc[h] \in {"create_lock", "join_lookup_lock"}

\* h is at the Lock() of a room's mutex
WantsRoomMu(h) == pc[h] \in {"create_join", "join_check", "relay_lock", "disc_lock"}

\* the room whose mutex h is about to lock
Wanted(h) == IF pc[h] = "relay_lock" THEN currentRoom[h] ELSE room[h]

\* h is blocked at a Lock() on a mutex that g holds
WaitsFor(h, g) ==
    \/ WantsRoomsMu(h) /\ roomsMu = g
    \/ WantsRoomMu(h) /\ mu[Wanted(h)] = g

\* C16: a handler that is at, or inside, a critical section of roomsMu
\* holds no room lock; no handler holds two room locks; a handler at the
\* Lock() of a room holds no lock at all; and there is no set of handlers
\* each of which is blocked on a lock held by a member of the set.
C16_LockDiscipline ==
    /\ \A h \in Handlers : WantsRoomsMu(h) \/ roomsMu = h => Holds(h) = {}
    /\ \A h \in Handlers : Cardinality(Holds(h)) <= 1
    /\ \A h \in Handlers : WantsRoomMu(h) => Holds(h) = {} /\ roomsMu # h
    /\ \A S \in SUBSET Handlers :
          S # {} => \E h \in S : \A g \in S : ~WaitsFor(h, g)

\* C16 witness: one handler is blocked on a room lock that another holds
\* across a socket write, while the third is at roomsMu.Lock().
C16_LocksContended ==
    \E h, g, k \in Handlers :
        /\ WantsRoomMu(h) /\ WaitsFor(h, g) /\ pc[g] \in WritePcs
        /\ k \notin {h, g} /\ WantsRoomsMu(k)

\* C17: a handler that is at the Lock() of a room's mutex eventually gets
\* past it, whether or not the socket write of the handler holding the
\* mutex ever returns.
C17_RoomLockEventuallyAcquired ==
    \A h \in Handlers : WantsRoomMu(h) ~> ~WantsRoomMu(h)

\* the places <<room, index>> at which player h appears in a player list
Places(h) ==
    {x \in RoomIds \X (1..(NumHandlers + 1)) :
        x[2] <= Len(Players[x[1]]) /\ Players[x[1]][x[2]] = h}

\* C18: every player appears at most once over all player lists, and the
\* room in whose list it appears is its handler's currentRoom.
C18_MemberOfOneRoom ==
    \A h \in Handlers :
        /\ Cardinality(Places(h)) <= 1
        /\ \A x \in Places(h) : currentRoom[h] = x[1]

\* C19: a step that deletes a Room from the registry is the step of the
\* removeRoom goroutine spawned when that very Room became empty, and the
\* Room has no player at that moment.
C19_RemovesOnlyItsEmptyRoom ==
    [][ \A c \in Codes :
          rooms[c] # NoRoom /\ rooms'[c] = NoRoom
             => /\ rooms[c] = removing
                /\ Players[rooms[c]] = <<>>
      ]_vars

\* the writes of ws that carry game_start
GameStarts(ws) == {i \in 1..Len(ws) : ws[i].m.type = "game_start"}

\* C20: at most one game_start loop is ever begun per Room, and only on a
\* started Room; a handler that has game_start writes done or queued is
\* handling the join that set Started on its room, and has before them
\* written room_joined to the joiner, as the first write of that join.
C20_GameStartOnce ==
    /\ \A r \in RoomIds : nBcast[r] <= (IF Started[r] THEN 1 ELSE 0)
    /\ \A h \in Handlers :
          LET ws == out[h] \o todo[h] IN
          GameStarts(ws) # {} \/ pc[h] = "join_range"
             => /\ starter[h] # <<>>
                /\ res[h] = "admitted"
                /\ Started[currentRoom[h]]
                /\ starter[h][Len(starter[h])] = h
                /\ out[h] # <<>>
                /\ out[h][1].to = h
                /\ out[h][1].m.type = "room_joined"
                /\ \A i \in GameStarts(ws) :
                      i > 1 /\ ws[i].m.room = Code[currentRoom[h]]

\* C20 witness: the join that started a room has sent room_joined and then
\* game_start to the joiner; a player has left the started room and a later
\* join on it has been refused, with no second game_start loop.
C20_StartedOnceThenRefused ==
    \E h, g \in Handlers : \E r \in Allocated :
        /\ h # g
        /\ pc[h] = "read" /\ starter[h] # <<>> /\ currentRoom[h] = r
        /\ out[h][1].m.type = "room_joined"
        /\ \E i \in GameStarts(out[h]) : out[h][i].to = h
        /\ nBcast[r] = 1
        /\ Len(Players[r]) < 2
        /\ pc[g] = "read" /\ res[g] = "started"

====
